---- MODULE Spec2Model ----
(***************************************************************************)
(* Cash-flow forecast, gap detection, risk scoring and recommendations of  *)
(* the financial analytics backend (backend/app/analytics).               *)
(*                                                                         *)
(* The store (fact_cashflow, fact_sales, fact_purchases, snapshot_arap) is *)
(* read-only for the analytics core: Init draws a store snapshot from a    *)
(* bounded set and every action is one request served on that snapshot.    *)
(* A table is a bag of rows (the surrogate primary key is abstracted: no   *)
(* query of the core reads it except to count rows).                       *)
(*                                                                         *)
(* Numbers.  Amounts stored in the tables are integers (currency units).   *)
(* Values that the code carries as Decimal(str(<float>)) are fixed-point   *)
(* integers in units of 1/Prec: a float mean is rounded to that resolution *)
(* (RoundDiv), everything added afterwards is exact, as Decimal addition   *)
(* is.  Ratios that the code compares against thresholds are kept as exact *)
(* fractions [num, den].                                                   *)
(* An Optional value is a sequence of length 0 (None) or 1.                *)
(***************************************************************************)
EXTENDS Integers, Sequences, FiniteSets, Bags, TLC

VARIABLES today, cashflow, sales, purchases, arap, resp

vars == <<today, cashflow, sales, purchases, arap, resp>>

(***************************************************************************)
(* Bounds of the model                                                     *)
(***************************************************************************)
Prec == 100
MaxHorizon == 4
MaxCashflowRows == 3
MaxSalesRows == 1
MaxPurchaseRows == 1
MaxRiskCashflowRows == 6
MaxRiskPurchaseRows == 1
MaxArapRows == 1
MaxRecCashflowRows == 3
MaxRecPurchaseRows == 2
MaxRecArapRows == 2
MaxRecSalesRows == 1
MaxCollectionArapRows == 6
MaxExpenseCashflowRows == 4
MonthLen == 30

(***************************************************************************)
(* Program constants                                                       *)
(***************************************************************************)
MinHorizon == 1
HorizonLimit == 90
LookbackDays == 90
MinHistoryDays == 7
BaselineWindow == 30
GapMediumFrom == 100000
GapHighFrom == 500000
RiskHorizon == 30
OutflowWindow == 30
DaysOfCashSentinel == 999
OverdueDays == 30
CollectionLimit == 5
CollectionDeadlineDays == 14
GrowthThreshold == 20
ExpenseDeadlineDays == 7

(***************************************************************************)
(* Generic helpers                                                         *)
(***************************************************************************)
None == <<>>
Some(v) == <<v>>

RECURSIVE SumFn(_)
SumFn(f) ==
    IF DOMAIN f = {} THEN 0
    ELSE LET x == CHOOSE y \in DOMAIN f : TRUE
         IN  f[x] + SumFn([y \in (DOMAIN f) \ {x} |-> f[y]])

RECURSIVE SumSeq(_)
SumSeq(s) == IF s = <<>> THEN 0 ELSE Head(s) + SumSeq(Tail(s))

MinSet(S) == CHOOSE x \in S : \A y \in S : x <= y
MaxSet(S) == CHOOSE x \in S : \A y \in S : y <= x
Abs(x) == IF x < 0 THEN 0 - x ELSE x

\* a / b rounded to the nearest integer, ties to even (b > 0)
RoundDiv(a, b) ==
    LET q == a \div b
        r == a % b
    IN  IF 2 * r < b THEN q
        ELSE IF 2 * r > b THEN q + 1
        ELSE IF q % 2 = 0 THEN q ELSE q + 1

RECURSIVE SqrtSearch(_, _, _)
SqrtSearch(v, lo, hi) ==
    IF lo >= hi THEN lo
    ELSE LET mid == (lo + hi + 1) \div 2
         IN  IF mid * mid <= v THEN SqrtSearch(v, mid, hi)
             ELSE SqrtSearch(v, lo, mid - 1)

\* floor of the square root of v >= 0
ISqrt(v) == SqrtSearch(v, 0, IF v < 46340 THEN v ELSE 46340)

\* all bags of at most n rows drawn from the row set T
RECURSIVE BagsUpTo(_, _)
BagsUpTo(T, n) ==
    IF n = 0 THEN {EmptyBag}
    ELSE LET S == BagsUpTo(T, n - 1)
         IN  S \cup {b (+) SetToBag({t}) : b \in S, t \in T}

\* SUM(column) over the rows of a table that are in S
SumOver(table, S, column) == SumFn([r \in S |-> r[column] * CopiesIn(r, table)])
\* SUM(ABS(column)) over the rows of a table that are in S
SumAbsOver(table, S, column) ==
    SumFn([r \in S |-> Abs(r[column]) * CopiesIn(r, table)])
\* COUNT(*) over the rows of a table that are in S
CountOver(table, S) == SumFn([r \in S |-> CopiesIn(r, table)])

(***************************************************************************)
(* Entity filter: `if entity_ids:' is false for None and for an empty list *)
(***************************************************************************)
\* `if entity_ids is not None:'
HasFilterNotNone(ids) == ids # None
HasFilter(ids) == ids # None /\ ids[1] # {}
\* a query that leaves the entity filter out
EntityMatchIgnored(ids, r) == TRUE
EntityMatch(ids, r) == HasFilter(ids) => r.entity_id \in ids[1]

(***************************************************************************)
(* ForecastEngine                                                          *)
(***************************************************************************)
\* the grouped daily sums in date order, without the reindexing over the
\* calendar days in between
GetHistoricalCashflowObserved(ids) ==
    LET rs == {r \in BagToSet(cashflow) :
                   /\ r.transaction_date >= today - LookbackDays
                   /\ EntityMatch(ids, r)}
        dates == {r.transaction_date : r \in rs}
        nth(i) == CHOOSE d \in dates : Cardinality({e \in dates : e < d}) = i - 1
    IN  [i \in 1..Cardinality(dates) |->
            [date |-> nth(i),
             cf   |-> SumOver(cashflow, {r \in rs : r.transaction_date = nth(i)},
                              "amount_rur")]]

\* _get_historical_cashflow: daily sums of the look-back window, reindexed
\* over every calendar day from the first to the last observed date
GetHistoricalCashflow(ids) ==
    LET rs == {r \in BagToSet(cashflow) :
                   /\ r.transaction_date >= today - LookbackDays
                   /\ EntityMatch(ids, r)}
        dates == {r.transaction_date : r \in rs}
        daily(d) == SumOver(cashflow, {r \in rs : r.transaction_date = d},
                            "amount_rur")
    IN  IF rs = {} THEN <<>>
        ELSE LET lo == MinSet(dates)
                 hi == MaxSet(dates)
             IN  [i \in 1..(hi - lo + 1) |->
                    [date |-> lo + i - 1,
                     cf   |-> IF (lo + i - 1) \in dates
                              THEN daily(lo + i - 1) ELSE 0]]

\* _get_current_balance: signed sum of every transaction under the filter
GetCurrentBalance(ids) ==
    Prec * SumOver(cashflow, {r \in BagToSet(cashflow) : EntityMatch(ids, r)},
                   "amount_rur")

\* historical["cf"] without the tail(30)
RecentDataAll(historical) ==
    [i \in 1..Len(historical) |-> historical[i].cf]

\* historical.tail(30)["cf"]
RecentData(historical) ==
    LET n == Len(historical)
        k == IF n < BaselineWindow THEN n ELSE BaselineWindow
    IN  [i \in 1..k |-> historical[n - k + i].cf]

\* np.mean(recent_data) carried over into Decimal(str(baseline))
Baseline(recent) == RoundDiv(Prec * SumSeq(recent), Len(recent))

\* Sum of (n*x - S)^2; np.std(recent_data) = sqrt(SqDev / n^3), ddof = 0
SqDev(recent) ==
    LET n == Len(recent)
        S == SumSeq(recent)
    IN  SumSeq([i \in 1..n |-> (n * recent[i] - S) * (n * recent[i] - S)])

\* np.std(recent_data) in units of 1/Prec
Volatility(recent) ==
    LET n == Len(recent)
    IN  IF n > 1
        THEN ISqrt(((SqDev(recent) * Prec) \div (n * n * n)) * Prec)
        ELSE 0

\* volatility > 0
VolatilityPositive(recent) == Len(recent) > 1 /\ SqDev(recent) > 0

\* _generate_baseline_forecast with start_date = date.today()
GenerateBaselineForecastFromToday(historical, horizon_days, include_uncertainty) ==
    IF Len(historical) < MinHistoryDays THEN <<>>
    ELSE LET recent == RecentData(historical)
             baseline == Baseline(recent)
             band == (196 * Volatility(recent)) \div 100
             start_date == today
             withBand == include_uncertainty /\ VolatilityPositive(recent)
         IN  [i \in 1..horizon_days |->
                [date          |-> start_date + (i - 1),
                 forecasted_cf |-> baseline,
                 lower_bound   |-> IF withBand THEN Some(baseline - band) ELSE None,
                 upper_bound   |-> IF withBand THEN Some(baseline + band) ELSE None,
                 confidence    |-> IF withBand THEN Some(95) ELSE None]]

\* _generate_baseline_forecast
GenerateBaselineForecast(historical, horizon_days, include_uncertainty) ==
    IF Len(historical) < MinHistoryDays THEN <<>>
    ELSE LET recent == RecentData(historical)
             baseline == Baseline(recent)
             band == (196 * Volatility(recent)) \div 100
             start_date == today + 1
             withBand == include_uncertainty /\ VolatilityPositive(recent)
         IN  [i \in 1..horizon_days |->
                [date          |-> start_date + (i - 1),
                 forecasted_cf |-> baseline,
                 lower_bound   |-> IF withBand THEN Some(baseline - band) ELSE None,
                 upper_bound   |-> IF withBand THEN Some(baseline + band) ELSE None,
                 confidence    |-> IF withBand THEN Some(95) ELSE None]]

\* the rows the planned-payment queries of a table select
\* the planned rows with the last day of the horizon left out
PlannedRowsBeforeEnd(table, ids, horizon_days) ==
    {r \in BagToSet(table) :
        /\ r.planned_payment_date # None
        /\ r.planned_payment_date[1] >= today
        /\ r.planned_payment_date[1] < today + horizon_days
        /\ EntityMatch(ids, r)}

PlannedRows(table, ids, horizon_days) ==
    {r \in BagToSet(table) :
        /\ r.planned_payment_date # None
        /\ r.planned_payment_date[1] >= today
        /\ r.planned_payment_date[1] <= today + horizon_days
        /\ EntityMatch(ids, r)}

\* planned_sales: date -> SUM(revenue_amount)
PlannedSales(ids, horizon_days) ==
    LET rs == PlannedRows(sales, ids, horizon_days)
    IN  [d \in {r.planned_payment_date[1] : r \in rs} |->
            SumOver(sales, {r \in rs : r.planned_payment_date[1] = d},
                    "revenue_amount")]

\* planned_purchases: date -> -SUM(expense_amount)
PlannedPurchases(ids, horizon_days) ==
    LET rs == PlannedRows(purchases, ids, horizon_days)
    IN  [d \in {r.planned_payment_date[1] : r \in rs} |->
            0 - SumOver(purchases, {r \in rs : r.planned_payment_date[1] = d},
                        "expense_amount")]

\* _incorporate_planned_payments with the payable totals not negated
IncorporatePlannedPaymentsUnsigned(forecast_points, ids, horizon_days) ==
    LET planned_sales == PlannedSales(ids, horizon_days)
        planned_purchases == PlannedPurchases(ids, horizon_days)
        add(point) ==
            LET d == point.date
                s == IF d \in DOMAIN planned_sales
                     THEN Prec * planned_sales[d] ELSE 0
                p == IF d \in DOMAIN planned_purchases
                     THEN Prec * (0 - planned_purchases[d]) ELSE 0
            IN  [point EXCEPT !.forecasted_cf = @ + s + p]
    IN  [i \in 1..Len(forecast_points) |-> add(forecast_points[i])]

\* _incorporate_planned_payments moving the uncertainty band with the flow
IncorporatePlannedPaymentsWithBand(forecast_points, ids, horizon_days) ==
    LET planned_sales == PlannedSales(ids, horizon_days)
        planned_purchases == PlannedPurchases(ids, horizon_days)
        add(point) ==
            LET d == point.date
                s == IF d \in DOMAIN planned_sales
                     THEN Prec * planned_sales[d] ELSE 0
                p == IF d \in DOMAIN planned_purchases
                     THEN Prec * planned_purchases[d] ELSE 0
                move(b) == IF b = None THEN None ELSE Some(b[1] + s + p)
            IN  [point EXCEPT !.forecasted_cf = @ + s + p,
                              !.lower_bound = move(@),
                              !.upper_bound = move(@)]
    IN  [i \in 1..Len(forecast_points) |-> add(forecast_points[i])]

\* _incorporate_planned_payments
IncorporatePlannedPayments(forecast_points, ids, horizon_days) ==
    LET planned_sales == PlannedSales(ids, horizon_days)
        planned_purchases == PlannedPurchases(ids, horizon_days)
        add(point) ==
            LET d == point.date
                s == IF d \in DOMAIN planned_sales
                     THEN Prec * planned_sales[d] ELSE 0
                p == IF d \in DOMAIN planned_purchases
                     THEN Prec * planned_purchases[d] ELSE 0
            IN  [point EXCEPT !.forecasted_cf = @ + s + p]
    IN  [i \in 1..Len(forecast_points) |-> add(forecast_points[i])]

\* the loop of _calculate_balances with running_balance never updated
RECURSIVE BalancesFromNoCarry(_, _, _)
BalancesFromNoCarry(forecast_points, i, running_balance) ==
    IF i > Len(forecast_points) THEN <<>>
    ELSE LET rb == running_balance + forecast_points[i].forecasted_cf
         IN  <<forecast_points[i] @@ ("projected_balance" :> rb)>>
             \o BalancesFromNoCarry(forecast_points, i + 1, running_balance)

\* the loop of _calculate_balances from point i on, running_balance so far
RECURSIVE BalancesFrom(_, _, _)
BalancesFrom(forecast_points, i, running_balance) ==
    IF i > Len(forecast_points) THEN <<>>
    ELSE LET rb == running_balance + forecast_points[i].forecasted_cf
         IN  <<forecast_points[i] @@ ("projected_balance" :> rb)>>
             \o BalancesFrom(forecast_points, i + 1, rb)

\* _calculate_balances
CalculateBalances(forecast_points, current_balance) ==
    BalancesFrom(forecast_points, 1, current_balance)

\* severity with inclusive upper bounds (<= instead of <)
SeverityInclusive(gap_amount) ==
    IF gap_amount <= GapMediumFrom * Prec THEN "low"
    ELSE IF gap_amount <= GapHighFrom * Prec THEN "medium"
    ELSE "high"

\* severity of a gap amount (in units of 1/Prec)
Severity(gap_amount) ==
    IF gap_amount < GapMediumFrom * Prec THEN "low"
    ELSE IF gap_amount < GapHighFrom * Prec THEN "medium"
    ELSE "high"

\* _identify_cash_gaps with `balance <= 0'
RECURSIVE IdentifyCashGapsNonPositive(_)
IdentifyCashGapsNonPositive(forecast_points) ==
    IF forecast_points = <<>> THEN <<>>
    ELSE LET point == Head(forecast_points)
             balance == point.projected_balance
             rest == IdentifyCashGapsNonPositive(Tail(forecast_points))
         IN  IF balance <= 0
             THEN <<[date              |-> point.date,
                     projected_balance |-> balance,
                     gap_amount        |-> Abs(balance),
                     severity          |-> Severity(Abs(balance))]>> \o rest
             ELSE rest

\* _identify_cash_gaps
RECURSIVE IdentifyCashGaps(_)
IdentifyCashGaps(forecast_points) ==
    IF forecast_points = <<>> THEN <<>>
    ELSE LET point == Head(forecast_points)
             balance == point.projected_balance
             rest == IdentifyCashGaps(Tail(forecast_points))
         IN  IF balance < 0
             THEN <<[date              |-> point.date,
                     projected_balance |-> balance,
                     gap_amount        |-> Abs(balance),
                     severity          |-> Severity(Abs(balance))]>> \o rest
             ELSE rest

\* forecast_cashflow with the history measured in observed transaction days
ForecastCashflowDistinctDays(horizon_days, ids, include_uncertainty) ==
    LET historical == GetHistoricalCashflow(ids)
        observed == {r.transaction_date : r \in
                        {x \in BagToSet(cashflow) :
                            /\ x.transaction_date >= today - LookbackDays
                            /\ EntityMatch(ids, x)}}
    IN  IF Cardinality(observed) < MinHistoryDays
        THEN [forecast_points        |-> <<>>,
              cash_gaps              |-> <<>>,
              current_balance        |-> 0,
              forecasted_balance_end |-> 0]
        ELSE LET current_balance == GetCurrentBalance(ids)
                 forecast_points ==
                     CalculateBalances(
                         IncorporatePlannedPayments(
                             GenerateBaselineForecast(
                                 historical, horizon_days, include_uncertainty),
                             ids, horizon_days),
                         current_balance)
             IN  [forecast_points        |-> forecast_points,
                  cash_gaps              |-> IdentifyCashGaps(forecast_points),
                  current_balance        |-> current_balance,
                  forecasted_balance_end |->
                      forecast_points[Len(forecast_points)].projected_balance]

\* forecast_cashflow with the balances projected before the overlay
ForecastCashflowBalancesFirst(horizon_days, ids, include_uncertainty) ==
    LET historical == GetHistoricalCashflow(ids)
    IN  IF Len(historical) < MinHistoryDays
        THEN [forecast_points        |-> <<>>,
              cash_gaps              |-> <<>>,
              current_balance        |-> 0,
              forecasted_balance_end |-> 0]
        ELSE LET current_balance == GetCurrentBalance(ids)
                 forecast_points ==
                     IncorporatePlannedPayments(
                         CalculateBalances(
                             GenerateBaselineForecast(
                                 historical, horizon_days, include_uncertainty),
                             current_balance),
                         ids, horizon_days)
             IN  [forecast_points        |-> forecast_points,
                  cash_gaps              |-> IdentifyCashGaps(forecast_points),
                  current_balance        |-> current_balance,
                  forecasted_balance_end |->
                      forecast_points[Len(forecast_points)].projected_balance]

\* forecast_cashflow
ForecastCashflow(horizon_days, ids, include_uncertainty) ==
    LET historical == GetHistoricalCashflow(ids)
    IN  IF Len(historical) < MinHistoryDays
        THEN [forecast_points        |-> <<>>,
              cash_gaps              |-> <<>>,
              current_balance        |-> 0,
              forecasted_balance_end |-> 0]
        ELSE LET current_balance == GetCurrentBalance(ids)
                 baseline_points == GenerateBaselineForecast(
                                        historical, horizon_days, include_uncertainty)
                 overlaid == IncorporatePlannedPayments(
                                        baseline_points, ids, horizon_days)
                 forecast_points == CalculateBalances(overlaid, current_balance)
             IN  [forecast_points        |-> forecast_points,
                  cash_gaps              |-> IdentifyCashGaps(forecast_points),
                  current_balance        |-> current_balance,
                  forecasted_balance_end |->
                      IF forecast_points # <<>>
                      THEN forecast_points[Len(forecast_points)].projected_balance
                      ELSE current_balance]

(***************************************************************************)
(* RiskScorer                                                              *)
(***************************************************************************)
Low == "Low"
Medium == "Medium"
High == "High"

\* an exact fraction num / den with den > 0
Frac(n, d) == [num |-> n, den |-> d]
\* f < a / b   and   f > a / b   (b > 0)
FracLess(f, a, b) == f.num * b < a * f.den
FracGreater(f, a, b) == f.num * b > a * f.den

\* the outcome of a call that may raise: the value returned, or the exception
\* that left the function
Return(v) == [exc |-> None, value |-> v]
Raise(e) == [exc |-> Some(e)]
Raised(r) == r.exc # None

\* the level decision of _calculate_cash_risk with `<=' on days_of_cash
CashRiskLevelInclusive(days_of_cash, probability_of_gap) ==
    IF ~FracGreater(days_of_cash, 7, 1) \/ FracGreater(probability_of_gap, 3, 10)
    THEN High
    ELSE IF ~FracGreater(days_of_cash, 14, 1) \/ FracGreater(probability_of_gap, 1, 10)
    THEN Medium
    ELSE Low

\* the level decision of _calculate_cash_risk
CashRiskLevel(days_of_cash, probability_of_gap) ==
    IF FracLess(days_of_cash, 7, 1) \/ FracGreater(probability_of_gap, 3, 10)
    THEN High
    ELSE IF FracLess(days_of_cash, 14, 1) \/ FracGreater(probability_of_gap, 1, 10)
    THEN Medium
    ELSE Low

\* _calculate_cash_risk with the forecast request built without entity_ids
CalculateCashRiskUnfiltered(ids) ==
    LET current_balance ==
            SumOver(cashflow, {r \in BagToSet(cashflow) : EntityMatch(ids, r)},
                    "amount_rur")
        out == {r \in BagToSet(cashflow) :
                    /\ r.transaction_date >= today - OutflowWindow
                    /\ r.amount_rur < 0
                    /\ EntityMatch(ids, r)}
        out_count == CountOver(cashflow, out)
        out_sum == SumAbsOver(cashflow, out, "amount_rur")
        \* avg_outflow = out_sum / out_count, or 0 when no row is selected
        days_of_cash == IF out_count > 0 /\ out_sum > 0
                        THEN Frac(current_balance * out_count, out_sum)
                        ELSE Frac(DaysOfCashSentinel, 1)
        forecast_result == ForecastCashflow(RiskHorizon, None, TRUE)
        gaps == forecast_result.cash_gaps
        probability_of_gap == IF gaps # <<>> THEN Frac(Len(gaps), RiskHorizon)
                              ELSE Frac(0, RiskHorizon)
    IN  [days_of_cash       |-> days_of_cash,
         probability_of_gap |-> probability_of_gap,
         risk_level         |-> CashRiskLevel(days_of_cash, probability_of_gap),
         indicators         |->
             (IF FracLess(days_of_cash, 14, 1) THEN <<"low_liquidity">> ELSE <<>>)
             \o (IF FracGreater(probability_of_gap, 1, 10)
                 THEN <<"gap_probability">> ELSE <<>>)
             \o (IF current_balance < 0 THEN <<"negative_balance">> ELSE <<>>)]

\* _calculate_cash_risk
CalculateCashRisk(ids) ==
    LET current_balance ==
            SumOver(cashflow, {r \in BagToSet(cashflow) : EntityMatch(ids, r)},
                    "amount_rur")
        out == {r \in BagToSet(cashflow) :
                    /\ r.transaction_date >= today - OutflowWindow
                    /\ r.amount_rur < 0
                    /\ EntityMatch(ids, r)}
        out_count == CountOver(cashflow, out)
        out_sum == SumAbsOver(cashflow, out, "amount_rur")
        \* avg_outflow = out_sum / out_count, or 0 when no row is selected
        days_of_cash == IF out_count > 0 /\ out_sum > 0
                        THEN Frac(current_balance * out_count, out_sum)
                        ELSE Frac(DaysOfCashSentinel, 1)
        forecast_result == ForecastCashflow(RiskHorizon, ids, TRUE)
        gaps == forecast_result.cash_gaps
        probability_of_gap == IF gaps # <<>> THEN Frac(Len(gaps), RiskHorizon)
                              ELSE Frac(0, RiskHorizon)
    IN  [days_of_cash       |-> days_of_cash,
         probability_of_gap |-> probability_of_gap,
         risk_level         |-> CashRiskLevel(days_of_cash, probability_of_gap),
         indicators         |->
             (IF FracLess(days_of_cash, 14, 1) THEN <<"low_liquidity">> ELSE <<>>)
             \o (IF FracGreater(probability_of_gap, 1, 10)
                 THEN <<"gap_probability">> ELSE <<>>)
             \o (IF current_balance < 0 THEN <<"negative_balance">> ELSE <<>>)]

\* the level decision of _calculate_counterparty_risk
CounterpartyRiskLevel(overdue_percentage, concentration_top3) ==
    IF FracGreater(overdue_percentage, 30, 1) \/ FracGreater(concentration_top3, 70, 1)
    THEN High
    ELSE IF FracGreater(overdue_percentage, 15, 1)
            \/ FracGreater(concentration_top3, 50, 1)
    THEN Medium
    ELSE Low

\* the values of f in non-increasing order (ORDER BY ... DESC)
RECURSIVE SortedDesc(_)
SortedDesc(f) ==
    IF DOMAIN f = {} THEN <<>>
    ELSE LET x == CHOOSE y \in DOMAIN f : \A z \in DOMAIN f : f[z] <= f[y]
         IN  <<f[x]>> \o SortedDesc([y \in (DOMAIN f) \ {x} |-> f[y]])

FirstN(s, n) == SubSeq(s, 1, IF Len(s) < n THEN Len(s) ELSE n)

\* _calculate_counterparty_risk
CalculateCounterpartyRisk(ids) ==
    LET ar == {r \in BagToSet(arap) : r.type = "AR" /\ EntityMatch(ids, r)}
        overdue == {r \in ar : r.overdue_days # None /\ r.overdue_days[1] > OverdueDays}
        \* SUM over no row is NULL: `or Decimal("0")'
        overdue_ar == SumOver(arap, overdue, "amount")
        total_sum == SumOver(arap, ar, "amount")
        \* NULL and 0 are both falsy: `or Decimal("1")'
        total_ar == IF ar = {} \/ total_sum = 0 THEN 1 ELSE total_sum
        overdue_percentage == IF total_ar > 0
                              THEN Frac(100 * overdue_ar, total_ar)
                              ELSE Frac(0, 1)
        groups == {r.counterparty_id : r \in ar}
        group_sum == [c \in groups |->
                         SumOver(arap, {r \in ar : r.counterparty_id = c},
                                 "amount")]
        top3_amounts == FirstN(SortedDesc(group_sum), 3)
        \* sum(float(a) for a in top3_amounts): the int 0 for an empty list,
        \* a float otherwise
        top3_is_float == top3_amounts # <<>>
        top3_total == SumSeq(top3_amounts)
    IN  IF total_ar > 0 /\ top3_is_float
        THEN \* float / Decimal
             Raise("TypeError")
        ELSE LET concentration_top3 == IF total_ar > 0
                                       THEN Frac(100 * top3_total, total_ar)
                                       ELSE Frac(0, 1)
             IN  Return(
                 [overdue_ar_percentage |-> overdue_percentage,
                  concentration_top3    |-> concentration_top3,
                  risk_level            |->
                      CounterpartyRiskLevel(overdue_percentage, concentration_top3),
                  indicators            |->
                      (IF FracGreater(overdue_percentage, 15, 1)
                       THEN <<"overdue_ar">> ELSE <<>>)
                      \o (IF FracGreater(concentration_top3, 50, 1)
                          THEN <<"concentration">> ELSE <<>>)])

\* the level decision of _calculate_anomaly_risk with `>=' on anomaly_count
AnomalyRiskLevelInclusive(anomaly_count, uncategorized_percentage) ==
    IF anomaly_count >= 10 \/ FracGreater(uncategorized_percentage, 10, 1)
    THEN High
    ELSE IF anomaly_count >= 5 \/ FracGreater(uncategorized_percentage, 5, 1)
    THEN Medium
    ELSE Low

\* the level decision of _calculate_anomaly_risk
AnomalyRiskLevel(anomaly_count, uncategorized_percentage) ==
    IF anomaly_count > 10 \/ FracGreater(uncategorized_percentage, 10, 1)
    THEN High
    ELSE IF anomaly_count > 5 \/ FracGreater(uncategorized_percentage, 5, 1)
    THEN Medium
    ELSE Low

\* _calculate_anomaly_risk
CalculateAnomalyRisk(ids) ==
    LET rows == {r \in BagToSet(cashflow) : EntityMatch(ids, r)}
        anomaly_count == CountOver(cashflow, {r \in rows : r.is_anomaly})
        uncategorized_count == CountOver(cashflow, {r \in rows : r.is_uncategorized})
        total == CountOver(cashflow, rows)
        total_count == IF total = 0 THEN 1 ELSE total
        uncategorized_percentage == Frac(100 * uncategorized_count, total_count)
    IN  [anomaly_count            |-> anomaly_count,
         uncategorized_percentage |-> uncategorized_percentage,
         risk_level               |->
             AnomalyRiskLevel(anomaly_count, uncategorized_percentage),
         indicators               |->
             (IF anomaly_count > 5 THEN <<"anomalies">> ELSE <<>>)
             \o (IF FracGreater(uncategorized_percentage, 5, 1)
                 THEN <<"uncategorized">> ELSE <<>>)]

\* risk_levels.get(x, 0)
RiskRank(level) ==
    IF level = Low THEN 1
    ELSE IF level = Medium THEN 2
    ELSE IF level = High THEN 3
    ELSE 0

\* max(a, b, c) without the key: the largest enum value as a string,
\* "High" < "Low" < "Medium"
MaxByName(a, b, c) ==
    LET ord(x) == IF x = High THEN 1 ELSE IF x = Low THEN 2 ELSE 3
        ab == IF ord(b) > ord(a) THEN b ELSE a
    IN  IF ord(c) > ord(ab) THEN c ELSE ab

\* max(a, b, c, key=...): the first argument of the largest key
MaxByRank(a, b, c) ==
    LET ab == IF RiskRank(b) > RiskRank(a) THEN b ELSE a
    IN  IF RiskRank(c) > RiskRank(ab) THEN c ELSE ab

\* calculate_risk_score
CalculateRiskScore(ids) ==
    LET cash_risk == CalculateCashRisk(ids)
        counterparty_call == CalculateCounterpartyRisk(ids)
        anomaly_risk == CalculateAnomalyRisk(ids)
    IN  IF Raised(counterparty_call) THEN counterparty_call
        ELSE LET counterparty_risk == counterparty_call.value IN
             Return(
             [overall_risk      |-> MaxByRank(cash_risk.risk_level,
                                              counterparty_risk.risk_level,
                                              anomaly_risk.risk_level),
              cash_risk         |-> cash_risk,
              counterparty_risk |-> counterparty_risk,
              anomaly_risk      |-> anomaly_risk,
              score_details     |->
                  [cash_risk_score         |-> RiskRank(cash_risk.risk_level),
                   counterparty_risk_score |-> RiskRank(counterparty_risk.risk_level),
                   anomaly_risk_score      |-> RiskRank(anomaly_risk.risk_level)]])

(***************************************************************************)
(* RecommendationsEngine                                                   *)
(* The calendar is simplified to months of MonthLen days, day 0 being the  *)
(* first day of a month.  The texts of a recommendation are represented by *)
(* the numbers they quote.                                                 *)
(***************************************************************************)
\* date(today.year, today.month, 1)
MonthStart(d) == d - (d % MonthLen)

\* the priority expression with the medium branch lost
GapPriorityTwoLevels(severity) ==
    IF severity = "high" THEN 10 ELSE 5

\* the priority of a cash-gap recommendation
GapPriority(severity) ==
    IF severity = "high" THEN 10 ELSE IF severity = "medium" THEN 7 ELSE 5

\* the recommendation for one gap with the payments query not grouped by
\* date: the filter `total < gap_amount' applied to every single payable
CashGapRecommendationPerItem(gap, ids) ==
    LET rs == {r \in BagToSet(purchases) :
                  /\ r.planned_payment_date # None
                  /\ r.planned_payment_date[1] >= today
                  /\ r.planned_payment_date[1] <= gap.date
                  /\ EntityMatch(ids, r)}
        deferrable_amount ==
            SumOver(purchases,
                    {r \in rs : Prec * r.expense_amount < gap.gap_amount},
                    "expense_amount")
    IN  [id                |-> <<"cash_gap", gap.date>>,
         deferrable_amount |-> deferrable_amount,
         gap_amount        |-> gap.gap_amount,
         planned_total     |-> SumOver(purchases, rs, "expense_amount"),
         deadline          |-> Some(gap.date - 7),
         priority          |-> GapPriority(gap.severity),
         category          |-> "cash_gap"]

\* the recommendation _cash_gap_recommendations appends for one gap
CashGapRecommendation(gap, ids) ==
    LET rs == {r \in BagToSet(purchases) :
                  /\ r.planned_payment_date # None
                  /\ r.planned_payment_date[1] >= today
                  /\ r.planned_payment_date[1] <= gap.date
                  /\ EntityMatch(ids, r)}
        \* upcoming_payments: one total per planned_payment_date
        upcoming_payments ==
            [d \in {r.planned_payment_date[1] : r \in rs} |->
                SumOver(purchases, {r \in rs : r.planned_payment_date[1] = d},
                        "expense_amount")]
        deferrable_amount ==
            SumFn([d \in {x \in DOMAIN upcoming_payments :
                             Prec * upcoming_payments[x] < gap.gap_amount} |->
                      upcoming_payments[d]])
    IN  [id                |-> <<"cash_gap", gap.date>>,
         deferrable_amount |-> deferrable_amount,
         gap_amount        |-> gap.gap_amount,
         planned_total     |-> SumFn(upcoming_payments),
         deadline          |-> Some(gap.date - 7),
         priority          |-> GapPriority(gap.severity),
         category          |-> "cash_gap"]

\* _cash_gap_recommendations
\* _cash_gap_recommendations with the forecast requested for all entities
CashGapRecommendationsUnfiltered(ids) ==
    LET gaps == ForecastCashflow(RiskHorizon, None, TRUE).cash_gaps
    IN  [k \in 1..Len(gaps) |-> CashGapRecommendation(gaps[k], ids)]

CashGapRecommendations(ids) ==
    LET gaps == ForecastCashflow(RiskHorizon, ids, TRUE).cash_gaps
    IN  [k \in 1..Len(gaps) |-> CashGapRecommendation(gaps[k], ids)]

\* all orders of the elements of S
RECURSIVE Perms(_)
Perms(S) ==
    IF S = {} THEN {<<>>}
    ELSE UNION {{<<x>> \o q : q \in Perms(S \ {x})} : x \in S}

\* the row orders ORDER BY SUM(...) DESC LIMIT n may return for the group
\* totals f: equal totals come in any order
TopOrders(f, n) ==
    {FirstN(q, n) : q \in {o \in Perms(DOMAIN f) :
                              \A i \in 1..(Len(o) - 1) : f[o[i]] >= f[o[i + 1]]}}

\* the overdue-receivable query with `overdue_days >= 30'
OverdueByCounterpartyInclusive(ids) ==
    LET rs == {r \in BagToSet(arap) :
                  /\ r.type = "AR"
                  /\ r.overdue_days # None /\ r.overdue_days[1] >= OverdueDays
                  /\ r.counterparty_id # None
                  /\ EntityMatch(ids, r)}
    IN  [c \in {r.counterparty_id[1] : r \in rs} |->
            SumOver(arap, {r \in rs : r.counterparty_id[1] = c},
                    "amount")]

\* total_overdue per counterparty of the overdue-receivable query
OverdueByCounterparty(ids) ==
    LET rs == {r \in BagToSet(arap) :
                  /\ r.type = "AR"
                  /\ r.overdue_days # None /\ r.overdue_days[1] > OverdueDays
                  /\ r.counterparty_id # None
                  /\ EntityMatch(ids, r)}
    IN  [c \in {r.counterparty_id[1] : r \in rs} |->
            SumOver(arap, {r \in rs : r.counterparty_id[1] = c},
                    "amount")]

\* _ar_collection_recommendations for one order of the query result
ArCollectionRecommendations(overdue_ar, order) ==
    [k \in 1..Len(order) |->
        [id            |-> <<"ar_collection", order[k]>>,
         total_overdue |-> overdue_ar[order[k]],
         deadline      |-> Some(today + CollectionDeadlineDays),
         priority      |-> 8,
         category      |-> "ar_collection"]]

\* _expense_control_recommendations with `growth_rate >= 20'
ExpenseControlRecommendationsInclusive(ids) ==
    LET current_month_start == MonthStart(today)
        prev_month_end == current_month_start - 1
        prev_month_start == MonthStart(prev_month_end)
        out == {r \in BagToSet(cashflow) : r.amount_rur < 0 /\ EntityMatch(ids, r)}
        current_total ==
            SumAbsOver(cashflow,
                    {r \in out : r.transaction_date >= current_month_start},
                    "amount_rur")
        prev_total ==
            SumAbsOver(cashflow,
                    {r \in out : /\ r.transaction_date >= prev_month_start
                                 /\ r.transaction_date <= prev_month_end},
                    "amount_rur")
        growth_rate == Frac(100 * (current_total - prev_total), prev_total)
    IN  IF prev_total > 0 /\ ~FracLess(growth_rate, GrowthThreshold, 1)
        THEN <<[id            |-> <<"expense_growth">>,
                growth_rate   |-> growth_rate,
                current_total |-> current_total,
                prev_total    |-> prev_total,
                deadline      |-> Some(today + ExpenseDeadlineDays),
                priority      |-> 6,
                category      |-> "expense_control"]>>
        ELSE <<>>

\* _expense_control_recommendations
ExpenseControlRecommendations(ids) ==
    LET current_month_start == MonthStart(today)
        prev_month_end == current_month_start - 1
        prev_month_start == MonthStart(prev_month_end)
        out == {r \in BagToSet(cashflow) : r.amount_rur < 0 /\ EntityMatch(ids, r)}
        current_total ==
            SumAbsOver(cashflow,
                    {r \in out : r.transaction_date >= current_month_start},
                    "amount_rur")
        prev_total ==
            SumAbsOver(cashflow,
                    {r \in out : /\ r.transaction_date >= prev_month_start
                                 /\ r.transaction_date <= prev_month_end},
                    "amount_rur")
        growth_rate == Frac(100 * (current_total - prev_total), prev_total)
    IN  IF prev_total > 0 /\ FracGreater(growth_rate, GrowthThreshold, 1)
        THEN <<[id            |-> <<"expense_growth">>,
                growth_rate   |-> growth_rate,
                current_total |-> current_total,
                prev_total    |-> prev_total,
                deadline      |-> Some(today + ExpenseDeadlineDays),
                priority      |-> 6,
                category      |-> "expense_control"]>>
        ELSE <<>>

\* _concentration_risk_recommendations
ConcentrationRiskRecommendations(ids) ==
    LET window == {r \in BagToSet(sales) :
                      r.doc_date >= today - LookbackDays /\ EntityMatch(ids, r)}
        joined == {r \in window : r.counterparty_id # None}
        by_customer == [c \in {r.counterparty_id[1] : r \in joined} |->
                           SumOver(sales, {r \in joined : r.counterparty_id[1] = c},
                                   "revenue_amount")]
        top_customers == FirstN(SortedDesc(by_customer), 3)
        \* a float: sum(float(c.total) for c in top_customers)
        total_sales == SumSeq(top_customers)
        window_sum == SumOver(sales, window, "revenue_amount")
        grand_total == IF window_sum = 0 THEN 1 ELSE window_sum
    IN  IF top_customers = <<>> THEN Return(<<>>)
        ELSE IF grand_total > 0
        THEN \* float / Decimal
             Raise("TypeError")
        ELSE LET concentration == Frac(0, 1)
             IN  IF FracGreater(concentration, 50, 1)
                 THEN Return(<<[id            |-> <<"customer_concentration">>,
                                concentration |-> concentration,
                                deadline      |-> None,
                                priority      |-> 5,
                                category      |-> "concentration"]>>)
                 ELSE Return(<<>>)

\* list.sort(key=priority) followed by list.reverse(): equal priorities end
\* up in reverse generation order
RECURSIVE SortThenReverse(_)
SortThenReverse(recs) ==
    IF recs = <<>> THEN <<>>
    ELSE LET sorted == SortThenReverse(Tail(recs))
             x == Head(recs)
             \* x goes behind the items of the same or a higher priority
             k == Cardinality({i \in 1..Len(sorted) : sorted[i].priority >= x.priority})
         IN  SubSeq(sorted, 1, k) \o <<x>> \o SubSeq(sorted, k + 1, Len(sorted))

\* list.sort(key=priority, reverse=True): stable, equal priorities keep
\* their order
RECURSIVE SortByPriority(_)
SortByPriority(recs) ==
    IF recs = <<>> THEN <<>>
    ELSE LET sorted == SortByPriority(Tail(recs))
             x == Head(recs)
             \* x, generated before them, goes in front of the items of the
             \* same or a lower priority
             k == Cardinality({i \in 1..Len(sorted) : sorted[i].priority > x.priority})
         IN  SubSeq(sorted, 1, k) \o <<x>> \o SubSeq(sorted, k + 1, Len(sorted))

\* the list generate_recommendations has built before it sorts, for one
\* order of the overdue-receivable query result
GeneratedRecommendations(ids, ar_order) ==
    LET concentration == ConcentrationRiskRecommendations(ids)
    IN  IF Raised(concentration) THEN concentration
        ELSE Return(
             CashGapRecommendations(ids)
             \o ArCollectionRecommendations(OverdueByCounterparty(ids), ar_order)
             \o ExpenseControlRecommendations(ids)
             \o concentration.value)

\* generate_recommendations
GenerateRecommendations(ids, ar_order) ==
    LET recommendations == GeneratedRecommendations(ids, ar_order)
    IN  IF Raised(recommendations) THEN recommendations
        ELSE Return(SortByPriority(recommendations.value))

(***************************************************************************)
(* Input domains                                                           *)
(***************************************************************************)
Today0 == 4 * MonthLen + 4
\* no filter, an empty list, entity 1, and an entity no row belongs to
EntityFilters == {None, Some({}), Some({1}), Some({3})}

CashflowRow(d, a, e, an, un) ==
    [transaction_date |-> d, amount_rur |-> a, entity_id |-> e,
     is_anomaly |-> an, is_uncategorized |-> un]
SalesRow(doc, a, p, e, c) ==
    [doc_date |-> doc, revenue_amount |-> a, planned_payment_date |-> p,
     entity_id |-> e, counterparty_id |-> c]
PurchaseRow(a, p, e) ==
    [expense_amount |-> a, planned_payment_date |-> p, entity_id |-> e]

ArapRow(t, a, o, e, c) ==
    [type |-> t, amount |-> a, overdue_days |-> o, entity_id |-> e,
     counterparty_id |-> c]

ForecastCashflowRows ==
    {CashflowRow(Today0 - o, a, e, FALSE, FALSE) :
        o \in {40, 7, 1}, a \in {0 - 2, 1, 2}, e \in {1, 2}}
ForecastSalesRows ==
    {SalesRow(Today0 - 1, 1, p, 1, None) :
        p \in {None, Some(Today0), Some(Today0 + 2), Some(Today0 + 3)}}
ForecastPurchaseRows ==
    {PurchaseRow(a, Some(Today0 + 2), 1) : a \in {1, GapMediumFrom, GapHighFrom}}

\* risk scoring: an inflow a week ago and outflows yesterday, with every
\* combination of the quality flags, and one clean outflow of another entity
RiskCashflowRows ==
    {CashflowRow(Today0 - 7, 16, 1, an, un) : an \in BOOLEAN, un \in BOOLEAN}
    \cup {CashflowRow(Today0 - 1, 0 - 2, 1, an, un) : an \in BOOLEAN, un \in BOOLEAN}
    \cup {CashflowRow(Today0 - 1, 0 - 2, 2, FALSE, FALSE)}
RiskPurchaseRows == {PurchaseRow(GapMediumFrom, Some(Today0 + 2), 1)}
RiskArapRows ==
    {ArapRow("AR", 10, Some(o), 1, Some(1)) : o \in {OverdueDays, OverdueDays + 1}}
    \cup {ArapRow("AR", 0, Some(OverdueDays + 1), 1, Some(1))}
RiskEntityFilters == EntityFilters

\* recommendations: flows of the previous and of the current month, payables
\* (one already past its planned date) that open low, medium and high gaps,
\* overdue receivables of two counterparties
\* (with equal and with different totals), sales with and without customer
RecCashflowRows ==
    {CashflowRow(Today0 - o, a, 1, FALSE, FALSE) : o \in {7, 1}, a \in {0 - 2, 2}}
    \cup {CashflowRow(Today0 - 1, 0 - 2, 2, FALSE, FALSE)}
RecPurchaseRows ==
    {PurchaseRow(1, Some(Today0 - 1), 1),
     PurchaseRow(1, Some(Today0 + 2), 1),
     PurchaseRow(GapMediumFrom, Some(Today0 + 2), 1),
     PurchaseRow(GapHighFrom, Some(Today0 + 4), 1)}
RecArapRows ==
    {ArapRow("AR", 10, Some(OverdueDays + 1), 1, Some(1)),
     ArapRow("AR", 10, Some(OverdueDays + 1), 1, Some(2)),
     ArapRow("AR", 5, Some(OverdueDays + 1), 1, Some(2)),
     ArapRow("AR", 10, Some(OverdueDays), 1, Some(1))}
\* receivable collection: overdue receivables of six counterparties with
\* different totals, a row that lifts counterparty 1 to the total of
\* counterparty 6, and rows the query does not select: overdue exactly 30
\* days, a payable, without counterparty, of another entity
CollectionArapRows ==
    {ArapRow("AR", 10 + c, Some(OverdueDays + 1), 1, Some(c)) : c \in 1..6}
    \cup {ArapRow("AR", 5, Some(OverdueDays + 1), 1, Some(1)),
          ArapRow("AR", 20, Some(OverdueDays), 1, Some(7)),
          ArapRow("AP", 20, Some(OverdueDays + 1), 1, Some(7)),
          ArapRow("AR", 20, Some(OverdueDays + 1), 1, None),
          ArapRow("AR", 20, Some(OverdueDays + 1), 2, Some(2))}
\* expense growth: outflows on the first and the last day of the previous
\* month and on the day before it, outflows on the first day of the current
\* month, yesterday and today, an inflow, and an outflow of another entity
ExpenseCashflowRows ==
    {CashflowRow(MonthStart(Today0) - 1, 0 - 5, 1, FALSE, FALSE),
     CashflowRow(MonthStart(Today0) - MonthLen, 0 - 10, 1, FALSE, FALSE),
     CashflowRow(MonthStart(Today0) - MonthLen - 1, 0 - 1, 1, FALSE, FALSE),
     CashflowRow(MonthStart(Today0), 0 - 6, 1, FALSE, FALSE),
     CashflowRow(Today0 - 1, 0 - 12, 1, FALSE, FALSE),
     CashflowRow(Today0, 0 - 1, 1, FALSE, FALSE),
     CashflowRow(Today0 - 1, 3, 1, FALSE, FALSE),
     CashflowRow(MonthStart(Today0), 0 - 6, 2, FALSE, FALSE)}
\* all three operations on one snapshot: a week of flows of two entities, a
\* payable that opens gaps, sales with and without customer, a receivable
CoreCashflowRows ==
    {CashflowRow(Today0 - 7, 0 - 2, 1, FALSE, FALSE),
     CashflowRow(Today0 - 1, 2, 1, FALSE, FALSE),
     CashflowRow(Today0 - 1, 0 - 2, 1, FALSE, FALSE),
     CashflowRow(Today0 - 1, 0 - 2, 2, FALSE, FALSE)}
CorePurchaseRows == {PurchaseRow(GapMediumFrom, Some(Today0 + 2), 1)}
CoreSalesRows ==
    {SalesRow(Today0 - 1, 1, Some(Today0 + 3), 1, None),
     SalesRow(Today0 - 1, 1, None, 1, Some(1))}
CoreArapRows == {ArapRow("AR", 10, Some(OverdueDays + 1), 1, Some(1))}
RecSalesRows ==
    {SalesRow(Today0 - 1, 1, None, 1, None),
     SalesRow(Today0 - 1, 1, None, 1, Some(1))}

(***************************************************************************)
(* Requests served on a snapshot                                           *)
(***************************************************************************)
NoResp == [op |-> "none"]

\* GET /forecast/cashflow: one request at a time is served on the snapshot
GetForecast ==
    \E h \in MinHorizon..MaxHorizon, ids \in EntityFilters, unc \in BOOLEAN :
        /\ resp = NoResp
        /\ h >= MinHorizon /\ h <= HorizonLimit
        /\ resp' = [op |-> "forecast", horizon_days |-> h, entity_ids |-> ids,
                    include_uncertainty |-> unc,
                    result |-> ForecastCashflow(h, ids, unc)]
        /\ UNCHANGED <<today, cashflow, sales, purchases, arap>>

Init ==
    /\ today = Today0
    /\ cashflow \in BagsUpTo(ForecastCashflowRows, MaxCashflowRows)
    /\ sales \in BagsUpTo(ForecastSalesRows, MaxSalesRows)
    /\ purchases \in BagsUpTo(ForecastPurchaseRows, MaxPurchaseRows)
    /\ arap = EmptyBag
    /\ resp = NoResp

\* GET /risks/score
GetRiskScore ==
    \E ids \in RiskEntityFilters :
        /\ resp = NoResp
        /\ resp' = [op |-> "risk", entity_ids |-> ids,
                    result |-> CalculateRiskScore(ids)]
        /\ UNCHANGED <<today, cashflow, sales, purchases, arap>>

\* GET /recommendations; `generated' is the list before the final sort
GetRecommendations ==
    \E ids \in EntityFilters :
        \E ar_order \in TopOrders(OverdueByCounterparty(ids), CollectionLimit) :
            /\ resp = NoResp
            /\ resp' = [op |-> "recommendations", entity_ids |-> ids,
                        generated |-> GeneratedRecommendations(ids, ar_order),
                        result |-> GenerateRecommendations(ids, ar_order)]
            /\ UNCHANGED <<today, cashflow, sales, purchases, arap>>

\* the response leaves the server; the store is as it was
Deliver ==
    /\ resp # NoResp
    /\ resp' = NoResp
    /\ UNCHANGED <<today, cashflow, sales, purchases, arap>>

Next == GetForecast \/ Deliver

Spec == Init /\ [][Next]_vars

InitRisk ==
    /\ today = Today0
    /\ cashflow \in BagsUpTo(RiskCashflowRows, MaxRiskCashflowRows)
    /\ sales = EmptyBag
    /\ purchases \in BagsUpTo(RiskPurchaseRows, MaxRiskPurchaseRows)
    /\ arap \in BagsUpTo(RiskArapRows, MaxArapRows)
    /\ resp = NoResp

NextRisk == GetRiskScore \/ Deliver

SpecRisk == InitRisk /\ [][NextRisk]_vars

InitRec ==
    /\ today = Today0
    /\ cashflow \in BagsUpTo(RecCashflowRows, MaxRecCashflowRows)
    /\ sales \in BagsUpTo(RecSalesRows, MaxRecSalesRows)
    /\ purchases \in BagsUpTo(RecPurchaseRows, MaxRecPurchaseRows)
    /\ arap \in BagsUpTo(RecArapRows, MaxRecArapRows)
    /\ resp = NoResp

NextRec == GetRecommendations \/ Deliver

SpecRec == InitRec /\ [][NextRec]_vars

InitCollection ==
    /\ today = Today0
    /\ cashflow = EmptyBag
    /\ sales = EmptyBag
    /\ purchases = EmptyBag
    /\ arap \in BagsUpTo(CollectionArapRows, MaxCollectionArapRows)
    /\ resp = NoResp

SpecCollection == InitCollection /\ [][NextRec]_vars

InitExpense ==
    /\ today = Today0
    /\ cashflow \in BagsUpTo(ExpenseCashflowRows, MaxExpenseCashflowRows)
    /\ sales = EmptyBag
    /\ purchases = EmptyBag
    /\ arap = EmptyBag
    /\ resp = NoResp

SpecExpense == InitExpense /\ [][NextRec]_vars

InitCore ==
    /\ today = Today0
    /\ cashflow \in BagsUpTo(CoreCashflowRows, MaxCashflowRows)
    /\ sales \in BagsUpTo(CoreSalesRows, MaxSalesRows)
    /\ purchases \in BagsUpTo(CorePurchaseRows, MaxPurchaseRows)
    /\ arap \in BagsUpTo(CoreArapRows, MaxArapRows)
    /\ resp = NoResp

NextCore == GetForecast \/ GetRiskScore \/ GetRecommendations \/ Deliver

SpecCore == InitCore /\ [][NextCore]_vars

(***************************************************************************)
(* Properties of forecast_cashflow                                         *)
(***************************************************************************)
IsForecast == resp.op = "forecast"
FcPoints == resp.result.forecast_points
FcGaps == resp.result.cash_gaps
FcHistoryLen == Len(GetHistoricalCashflow(resp.entity_ids))
\* number of distinct transaction dates in the look-back window of the request
FcDistinctDays ==
    Cardinality({r.transaction_date : r \in
        {x \in BagToSet(cashflow) :
            /\ x.transaction_date >= today - LookbackDays
            /\ EntityMatch(resp.entity_ids, x)}})

\* C1: with a history of at least 7 days and a horizon H in 1..90 the forecast
\* has exactly H points, dated today+1, today+2, ..., today+H in this order,
\* however sparse the history is.
C1_HorizonConsecutiveDays ==
    (IsForecast /\ FcHistoryLen >= MinHistoryDays) =>
        /\ resp.horizon_days \in MinHorizon..HorizonLimit
        /\ Len(FcPoints) = resp.horizon_days
        /\ \A i \in 1..Len(FcPoints) : FcPoints[i].date = today + i

\* a forecast of the longest horizon built on a history with only two
\* distinct transaction days
C1_Witness ==
    /\ IsForecast
    /\ FcHistoryLen >= MinHistoryDays
    /\ FcDistinctDays = 2
    /\ resp.horizon_days = MaxHorizon
    /\ Len(FcPoints) = MaxHorizon

\* C2: in a non-degenerate forecast every projected_balance is the current
\* balance plus the flows of the points up to and including it, each balance
\* is the previous one plus the point's flow, and forecasted_balance_end is the
\* balance of the last point.
C2_RunningBalance ==
    (IsForecast /\ FcPoints # <<>>) =>
        /\ \A i \in 1..Len(FcPoints) :
              FcPoints[i].projected_balance =
                  resp.result.current_balance
                  + SumFn([j \in 1..i |-> FcPoints[j].forecasted_cf])
        /\ FcPoints[1].projected_balance =
              resp.result.current_balance + FcPoints[1].forecasted_cf
        /\ \A i \in 2..Len(FcPoints) :
              FcPoints[i].projected_balance =
                  FcPoints[i - 1].projected_balance + FcPoints[i].forecasted_cf
        /\ resp.result.forecasted_balance_end =
              FcPoints[Len(FcPoints)].projected_balance

\* a forecast of several points with a non-zero current balance in which the
\* overlay changed the flow of a point after the first
C2_Witness ==
    /\ IsForecast
    /\ Len(FcPoints) >= 3
    /\ resp.result.current_balance # 0
    /\ FcPoints[1].forecasted_cf # 0
    /\ \E i \in 2..Len(FcPoints) :
          FcPoints[i].forecasted_cf # FcPoints[1].forecasted_cf

\* C3: cash_gaps has exactly one entry for every forecast point whose
\* projected_balance is below 0 and none for any other point (0 is not a gap);
\* an entry carries the point's date and balance and gap_amount =
\* |projected_balance| > 0, and the entries are in ascending date order.
C3_GapsAreNegativePoints ==
    IsForecast =>
        /\ Len(FcGaps) =
              Cardinality({i \in 1..Len(FcPoints) : FcPoints[i].projected_balance < 0})
        /\ \A k \in 1..Len(FcGaps) :
              /\ \E i \in 1..Len(FcPoints) :
                    /\ FcPoints[i].date = FcGaps[k].date
                    /\ FcPoints[i].projected_balance < 0
                    /\ FcPoints[i].projected_balance = FcGaps[k].projected_balance
              /\ FcGaps[k].gap_amount = 0 - FcGaps[k].projected_balance
              /\ FcGaps[k].gap_amount > 0
        /\ \A k \in 1..(Len(FcGaps) - 1) : FcGaps[k].date < FcGaps[k + 1].date

\* a forecast with a point whose balance is exactly 0 (no gap) followed by
\* two points below 0 (two gaps)
C3_Witness ==
    /\ IsForecast
    /\ \E i \in 1..Len(FcPoints) :
          /\ FcPoints[i].projected_balance = 0
          /\ \A k \in 1..Len(FcGaps) : FcGaps[k].date # FcPoints[i].date
    /\ Len(FcGaps) = 2
    /\ Len(FcGaps) < Len(FcPoints)

\* C4: the severity of a gap depends on gap_amount alone: low iff below
\* 100000, medium iff from 100000 to below 500000, high iff 500000 or more.
C4_SeverityThresholds ==
    IsForecast =>
        \A k \in 1..Len(FcGaps) :
            LET g == FcGaps[k] IN
            /\ g.severity \in {"low", "medium", "high"}
            /\ g.severity = "low" <=> g.gap_amount < GapMediumFrom * Prec
            /\ g.severity = "medium" <=>
                  (GapMediumFrom * Prec <= g.gap_amount
                   /\ g.gap_amount < GapHighFrom * Prec)
            /\ g.severity = "high" <=> g.gap_amount >= GapHighFrom * Prec

\* a gap of exactly 100000 classified medium
C4_Witness ==
    /\ IsForecast
    /\ \E k \in 1..Len(FcGaps) :
          /\ FcGaps[k].gap_amount = GapMediumFrom * Prec
          /\ FcGaps[k].severity = "medium"

\* C5: with a history of fewer than 7 days the forecast is empty, the gap list
\* is empty, and current_balance and forecasted_balance_end are both the
\* current balance (the signed sum of all transactions under the filter).
C5_DegenerateKeepsBalance ==
    (IsForecast /\ FcHistoryLen < MinHistoryDays) =>
        /\ FcPoints = <<>>
        /\ FcGaps = <<>>
        /\ resp.result.current_balance = GetCurrentBalance(resp.entity_ids)
        /\ resp.result.forecasted_balance_end = GetCurrentBalance(resp.entity_ids)

\* the rows of a table planned for day d under the request's entity filter
FcPlannedOn(table, d) ==
    {r \in BagToSet(table) :
        /\ r.planned_payment_date = Some(d)
        /\ EntityMatch(resp.entity_ids, r)}
FcReceivablesOn(d) == SumOver(sales, FcPlannedOn(sales, d), "revenue_amount")
FcPayablesOn(d) == SumOver(purchases, FcPlannedOn(purchases, d), "expense_amount")
\* the points of the request before the overlay
FcBaselinePoints ==
    GenerateBaselineForecast(GetHistoricalCashflow(resp.entity_ids),
                             resp.horizon_days, resp.include_uncertainty)

\* C11: after the overlay the flow of every forecast day d is the baseline
\* plus the total of the receivables planned for d minus the total of the
\* payables planned for d; a day with no planned event on its date keeps the
\* baseline.
C11_OverlayIsAdditive ==
    (IsForecast /\ FcPoints # <<>>) =>
        LET before == FcBaselinePoints IN
        /\ Len(before) = Len(FcPoints)
        /\ \A i \in 1..Len(FcPoints) :
              LET d == FcPoints[i].date
                  baseline == before[i].forecasted_cf
              IN  /\ FcPoints[i].forecasted_cf =
                        baseline + Prec * FcReceivablesOn(d) - Prec * FcPayablesOn(d)
                  /\ (FcPlannedOn(sales, d) = {} /\ FcPlannedOn(purchases, d) = {})
                        => FcPoints[i].forecasted_cf = baseline

\* a forecast with a day that has both a planned receivable and a planned
\* payable of different totals, and a day with no planned event
C11_Witness ==
    /\ IsForecast
    /\ \E i, k \in 1..Len(FcPoints) :
          /\ FcPlannedOn(sales, FcPoints[i].date) # {}
          /\ FcPlannedOn(purchases, FcPoints[i].date) # {}
          /\ FcReceivablesOn(FcPoints[i].date) # FcPayablesOn(FcPoints[i].date)
          /\ FcPlannedOn(sales, FcPoints[k].date) = {}
          /\ FcPlannedOn(purchases, FcPoints[k].date) = {}
          /\ FcPoints[k].forecasted_cf # 0

\* the rows of the look-back window under the request's entity filter
FcLookbackRows ==
    {r \in BagToSet(cashflow) :
        /\ r.transaction_date >= today - LookbackDays
        /\ EntityMatch(resp.entity_ids, r)}
\* min(30, N) for the daily series of the request
FcWindowLen ==
    IF FcHistoryLen < BaselineWindow THEN FcHistoryLen ELSE BaselineWindow
\* the sum of the flows of the last min(30, N) days of the daily series
FcWindowSum ==
    LET last == MaxSet({r.transaction_date : r \in FcLookbackRows})
    IN  SumOver(cashflow,
                {r \in FcLookbackRows : r.transaction_date > last - FcWindowLen},
                "amount_rur")

IsRisk == resp.op = "risk"
RiskReturned == IsRisk /\ ~Raised(resp.result)
LevelOrd == ("Low" :> 1) @@ ("Medium" :> 2) @@ ("High" :> 3)
Max3(a, b, c) == MaxSet({a, b, c})
\* the rows of fact_cashflow the request's entity filter selects
RiskRows == {r \in BagToSet(cashflow) : EntityMatch(resp.entity_ids, r)}

\* C6: a returned risk score has overall_risk at the maximum of the cash,
\* counterparty and anomaly levels under Low(1) < Medium(2) < High(3), and the
\* ordinal of overall_risk is the maximum of the three score_details values.
C6_OverallIsMaximum ==
    RiskReturned =>
        LET r == resp.result.value IN
        /\ r.overall_risk \in {"Low", "Medium", "High"}
        /\ LevelOrd[r.overall_risk] =
              Max3(LevelOrd[r.cash_risk.risk_level],
                   LevelOrd[r.counterparty_risk.risk_level],
                   LevelOrd[r.anomaly_risk.risk_level])
        /\ LevelOrd[r.overall_risk] =
              Max3(r.score_details.cash_risk_score,
                   r.score_details.counterparty_risk_score,
                   r.score_details.anomaly_risk_score)

\* a score whose overall level High comes from the cash assessment alone while
\* the anomaly assessment is Medium
C6_Witness ==
    /\ RiskReturned
    /\ resp.result.value.cash_risk.risk_level = "High"
    /\ resp.result.value.anomaly_risk.risk_level = "Medium"
    /\ resp.result.value.counterparty_risk.risk_level = "Low"
    /\ resp.result.value.overall_risk = "High"

C9_CounterpartyRiskLevel ==
    IsRisk =>
        /\ ~Raised(resp.result)
        /\ LET c == resp.result.value.counterparty_risk
               od == c.overdue_ar_percentage
               ct == c.concentration_top3
               high == od.num > 30 * od.den \/ ct.num > 70 * ct.den
               medium == od.num > 15 * od.den \/ ct.num > 50 * ct.den
           IN  /\ c.risk_level = "High" <=> high
               /\ c.risk_level = "Medium" <=> (~high /\ medium)
               /\ c.risk_level = "Low" <=> (~high /\ ~medium)

IsRec == resp.op = "recommendations"
RecReturned == IsRec /\ ~Raised(resp.result)
\* the place of a recommendation in the list as generated
GenPos(rec) ==
    CHOOSE k \in 1..Len(resp.generated.value) : resp.generated.value[k] = rec
\* the generator a recommendation comes from
GeneratorOf(rec) ==
    IF rec.category = "cash_gap" THEN 1
    ELSE IF rec.category = "ar_collection" THEN 2
    ELSE IF rec.category = "expense_control" THEN 3
    ELSE 4

\* C7: the returned list holds the generated recommendations sorted
\* non-increasing by priority, and two recommendations of equal priority keep
\* their generation order: cash-gap before receivable-collection before
\* expense-growth before concentration, and within one generator the order
\* in which they were produced.
C7_StableByPriority ==
    RecReturned =>
        LET out == resp.result.value
            gen == resp.generated.value
        IN  /\ Len(out) = Len(gen)
            /\ \A i \in 1..Len(out) : \E k \in 1..Len(gen) : gen[k] = out[i]
            /\ \A i, j \in 1..Len(out) : i # j => out[i] # out[j]
            /\ \A i, j \in 1..Len(gen) :
                  i < j => GeneratorOf(gen[i]) <= GeneratorOf(gen[j])
            /\ \A i, j \in 1..Len(out) :
                  i < j =>
                     /\ out[i].priority >= out[j].priority
                     /\ out[i].priority = out[j].priority =>
                           /\ GenPos(out[i]) < GenPos(out[j])
                           /\ GeneratorOf(out[i]) <= GeneratorOf(out[j])

RecOut == resp.result.value

IsCashGapRec(rec) == rec.category = "cash_gap"
\* the cash-gap recommendations of a returned list, as generated
RecCashGapRecs == SelectSeq(resp.generated.value, IsCashGapRec)
\* the gaps of a forecast of 30 days under the request's entity filter
RecGaps == ForecastCashflow(RiskHorizon, resp.entity_ids, TRUE).cash_gaps

\* a returned list in which the sort moved a recommendation in front of one
\* generated before it, and which holds two cash-gap recommendations and two
\* receivable recommendations of equal priority
C7_Witness ==
    /\ RecReturned
    /\ \E i, j \in 1..Len(RecOut) :
          /\ i < j
          /\ GenPos(RecOut[i]) > GenPos(RecOut[j])
    /\ \E i, j \in 1..Len(RecOut) :
          /\ i < j
          /\ RecOut[i].category = "cash_gap"
          /\ RecOut[j].category = "cash_gap"
          /\ RecOut[i].priority = RecOut[j].priority
          /\ RecOut[i].id[2] < RecOut[j].id[2]
    /\ \E i, j \in 1..Len(RecOut) :
          /\ i < j
          /\ RecOut[i].category = "ar_collection"
          /\ RecOut[j].category = "ar_collection"

\* C13: the cash-gap generator emits exactly one recommendation per gap of a
\* 30-day forecast, in the order of the gaps, with category cash_gap, priority
\* 10 for a high gap, 7 for a medium gap and 5 for a low gap, and the deadline
\* 7 days before the gap date.
C13_OnePerGap ==
    RecReturned =>
        LET recs == RecCashGapRecs
            gaps == RecGaps
        IN  /\ Len(recs) = Len(gaps)
            /\ \A k \in 1..Len(recs) :
                  /\ recs[k].id = <<"cash_gap", gaps[k].date>>
                  /\ recs[k].category = "cash_gap"
                  /\ recs[k].priority =
                        (IF gaps[k].severity = "high" THEN 10
                         ELSE IF gaps[k].severity = "medium" THEN 7
                         ELSE 5)
                  /\ gaps[k].severity \in {"low", "medium", "high"}
                  /\ recs[k].deadline = Some(gaps[k].date - 7)
            /\ \A k \in 1..(Len(recs) - 1) : recs[k].id[2] < recs[k + 1].id[2]

\* a returned list with cash-gap recommendations of priority 5, 7 and 10
C13_Witness ==
    /\ RecReturned
    /\ \E i, j, k \in 1..Len(RecCashGapRecs) :
          /\ i < j /\ j < k
          /\ RecCashGapRecs[i].priority = 5
          /\ RecCashGapRecs[j].priority = 7
          /\ RecCashGapRecs[k].priority = 10

\* the payables under the request's entity filter planned for day d
RecPayablesOn(d) ==
    {r \in BagToSet(purchases) :
        /\ r.planned_payment_date = Some(d)
        /\ EntityMatch(resp.entity_ids, r)}
\* the upcoming payables under the request's entity filter due on or before
\* day d
RecPayablesUpTo(d) ==
    {r \in BagToSet(purchases) :
        /\ r.planned_payment_date # None
        /\ r.planned_payment_date[1] >= today
        /\ r.planned_payment_date[1] <= d
        /\ EntityMatch(resp.entity_ids, r)}

\* C14 as stated: the deferrable amount of a gap is the sum of the single
\* upcoming payables due on or before the gap date whose own amount is below
\* the gap amount.
C14_DeferrablePerItem ==
    RecReturned =>
        \A k \in 1..Len(RecCashGapRecs) :
            LET rec == RecCashGapRecs[k]
                due == RecPayablesUpTo(rec.id[2])
            IN  rec.deferrable_amount =
                    SumOver(purchases,
                            {r \in due : Prec * r.expense_amount < rec.gap_amount},
                            "expense_amount")

\* C14 amended: the deferrable amount of a gap is the sum, over the days from
\* today to the gap date, of the day's payable total when that total is below
\* the gap amount (days whose total reaches the gap amount add nothing).
C14_DeferrablePerDate ==
    RecReturned =>
        \A k \in 1..Len(RecCashGapRecs) :
            LET rec == RecCashGapRecs[k]
                total(d) == SumOver(purchases, RecPayablesOn(d), "expense_amount")
            IN  rec.deferrable_amount =
                    SumFn([d \in today..rec.id[2] |->
                              IF Prec * total(d) < rec.gap_amount
                              THEN total(d) ELSE 0])

\* a gap before which two payables are planned for one day, each below the gap
\* amount while their total is not, so that nothing is deferrable
C14_Witness ==
    /\ RecReturned
    /\ \E k \in 1..Len(RecCashGapRecs) :
          LET rec == RecCashGapRecs[k] IN
          /\ rec.deferrable_amount = 0
          /\ \E d \in today..rec.id[2] :
                /\ CountOver(purchases, RecPayablesOn(d)) = 2
                /\ \A r \in RecPayablesOn(d) : Prec * r.expense_amount < rec.gap_amount

IsArRec(rec) == rec.category = "ar_collection"
\* the receivable-collection recommendations of a returned list, as generated
RecArRecs == SelectSeq(resp.generated.value, IsArRec)
\* the receivables of counterparty c overdue more than 30 days under the
\* request's entity filter
RecOverdueRows(c) ==
    {r \in BagToSet(arap) :
        /\ r.type = "AR"
        /\ r.overdue_days # None /\ r.overdue_days[1] > 30
        /\ r.counterparty_id = Some(c)
        /\ EntityMatch(resp.entity_ids, r)}
RecOverdueTotal(c) == SumOver(arap, RecOverdueRows(c), "amount")
\* the counterparties that have such receivables
RecOverdueCounterparties ==
    {c \in {r.counterparty_id[1] : r \in {x \in BagToSet(arap) :
                                            x.counterparty_id # None}} :
        RecOverdueRows(c) # {}}

\* C15: the receivable-collection generator emits one recommendation for each
\* of the at most 5 counterparties with the largest total of receivables
\* overdue more than 30 days, in non-increasing order of that total, each with
\* priority 8, category ar_collection and deadline today + 14; a counterparty
\* outside the top 5 or without such receivables gets none.
C15_TopOverdueCounterparties ==
    RecReturned =>
        LET recs == RecArRecs
            all == RecOverdueCounterparties
            chosen == {recs[k].id[2] : k \in 1..Len(recs)}
        IN  /\ Len(recs) = (IF Cardinality(all) < 5 THEN Cardinality(all) ELSE 5)
            /\ Cardinality(chosen) = Len(recs)
            /\ chosen \subseteq all
            /\ \A k \in 1..Len(recs) :
                  /\ recs[k].total_overdue = RecOverdueTotal(recs[k].id[2])
                  /\ recs[k].priority = 8
                  /\ recs[k].category = "ar_collection"
                  /\ recs[k].deadline = Some(today + 14)
            /\ \A k \in 1..(Len(recs) - 1) :
                  recs[k].total_overdue >= recs[k + 1].total_overdue
            /\ \A c \in all \ chosen : \A d \in chosen :
                  RecOverdueTotal(c) <= RecOverdueTotal(d)

\* six counterparties have receivables overdue more than 30 days: five get a
\* recommendation and the one with the strictly smallest total gets none
C15_Witness ==
    /\ RecReturned
    /\ Cardinality(RecOverdueCounterparties) = 6
    /\ Len(RecArRecs) = 5
    /\ \E c \in RecOverdueCounterparties :
          /\ \A k \in 1..Len(RecArRecs) :
                /\ RecArRecs[k].id[2] # c
                /\ RecArRecs[k].total_overdue > RecOverdueTotal(c)

IsExpenseRec(rec) == rec.category = "expense_control"
\* the expense-growth recommendations of a returned list, as generated
RecExpenseRecs == SelectSeq(resp.generated.value, IsExpenseRec)
\* the total absolute outflow, under the request's entity filter, of the
\* calendar month that starts on day first
RecMonthOutflow(first) ==
    SumAbsOver(cashflow,
               {r \in BagToSet(cashflow) :
                   /\ r.amount_rur < 0
                   /\ r.transaction_date >= first
                   /\ r.transaction_date < first + MonthLen
                   /\ EntityMatch(resp.entity_ids, r)},
               "amount_rur")
RecCurrentOutflow == RecMonthOutflow(today - (today % MonthLen))
RecPreviousOutflow == RecMonthOutflow(today - (today % MonthLen) - MonthLen)

IsConcentrationRec(rec) == rec.category = "concentration"
\* the sales of the trailing 90 days under the request's entity filter
RecWindowSales ==
    {r \in BagToSet(sales) :
        r.doc_date >= today - 90 /\ EntityMatch(resp.entity_ids, r)}
RecRevenueOf(c) ==
    SumOver(sales, {r \in RecWindowSales : r.counterparty_id = Some(c)},
            "revenue_amount")
RecCustomers ==
    {r.counterparty_id[1] : r \in {x \in RecWindowSales : x.counterparty_id # None}}
\* the summed revenue of the top 3 customers: the largest total that at most
\* three customers have together
RecTop3Revenue ==
    MaxSet({SumFn([c \in T |-> RecRevenueOf(c)]) :
               T \in {U \in SUBSET RecCustomers : Cardinality(U) <= 3}})

\* C17: a recommendations request returns normally, and its list holds exactly
\* one concentration recommendation (priority 5, no deadline) iff the top 3
\* customers by revenue of the trailing 90 days have strictly more than 50%
\* of the total revenue of these days, and none otherwise.
C17_ConcentrationRecommendation ==
    IsRec =>
        /\ ~Raised(resp.result)
        /\ LET recs == SelectSeq(resp.generated.value, IsConcentrationRec)
               total == SumOver(sales, RecWindowSales, "revenue_amount")
               concentrated == total > 0 /\ 100 * RecTop3Revenue > 50 * total
           IN  /\ Len(recs) = (IF concentrated THEN 1 ELSE 0)
               /\ \A k \in 1..Len(recs) :
                     /\ recs[k].priority = 5
                     /\ recs[k].deadline = None
                     /\ recs[k].category = "concentration"

\* the forecast of 30 days under the entity filter of the risk request
RiskForecast == ForecastCashflow(30, resp.entity_ids, TRUE)

\* C19: probability_of_gap of a returned risk score is the number of gaps of
\* a forecast of 30 days under the same entity filter, divided by 30: the
\* number of forecast days with a negative balance, 0 when the forecast is
\* degenerate or has no gap, and always one of 0/30, 1/30, ..., 30/30.
C19_ProbabilityOfGap ==
    RiskReturned =>
        LET p == resp.result.value.cash_risk.probability_of_gap
            fc == RiskForecast
        IN  /\ p.den = 30
            /\ p.num \in 0..30
            /\ p.num = Len(fc.cash_gaps)
            /\ p.num = Cardinality({i \in 1..Len(fc.forecast_points) :
                                       fc.forecast_points[i].projected_balance < 0})
            /\ Len(GetHistoricalCashflow(resp.entity_ids)) < 7 => p.num = 0

\* a risk score under an entity filter whose forecast has gaps on some of
\* the 30 days but not on all
C19_Witness ==
    /\ RiskReturned
    /\ resp.entity_ids = Some({1})
    /\ resp.result.value.cash_risk.probability_of_gap.num > 0
    /\ resp.result.value.cash_risk.probability_of_gap.num < 30
    /\ resp.result.value.cash_risk.probability_of_gap.den = 30

\* the outflows of the trailing 30 days under the request's entity filter
RiskRecentOutflows ==
    {r \in RiskRows : r.amount_rur < 0 /\ r.transaction_date >= today - 30}
\* the open receivables under the request's entity filter
RiskReceivables ==
    {r \in BagToSet(arap) : r.type = "AR" /\ EntityMatch(resp.entity_ids, r)}

\* C20: zero denominators never raise and give the defaults: with a zero
\* average outflow of the trailing 30 days days_of_cash is 999 (and the cash
\* level Low when the forecast has no gap); with a zero sum of the open
\* receivables overdue_percentage and concentration_top3 are 0; with a zero
\* total revenue of the trailing 90 days no concentration recommendation is
\* emitted.
C20_ZeroDenominators ==
    /\ (RiskReturned /\ RiskRecentOutflows = {}) =>
            /\ resp.result.value.cash_risk.days_of_cash = Frac(999, 1)
            /\ resp.result.value.cash_risk.probability_of_gap.num = 0
                  => resp.result.value.cash_risk.risk_level = "Low"
    /\ (IsRisk /\ SumOver(arap, RiskReceivables, "amount") = 0) =>
            /\ ~Raised(resp.result)
            /\ resp.result.value.counterparty_risk.overdue_ar_percentage.num = 0
            /\ resp.result.value.counterparty_risk.concentration_top3.num = 0
    /\ (IsRec /\ SumOver(sales, RecWindowSales, "revenue_amount") = 0) =>
            /\ ~Raised(resp.result)
            /\ SelectSeq(resp.generated.value, IsConcentrationRec) = <<>>

\* the net flow of calendar day d under the request's entity filter
RiskDailyNet(d) ==
    SumOver(cashflow, {r \in RiskRows : r.transaction_date = d}, "amount_rur")
\* the days of the trailing 30 days whose net flow is negative
RiskOutflowDays ==
    {d \in {r.transaction_date : r \in RiskRows} :
        d >= today - 30 /\ RiskDailyNet(d) < 0}

\* C22: when some day of the trailing 30 days has a negative net flow,
\* days_of_cash is the signed sum of all transactions under the entity filter
\* divided by the average, over those days, of the absolute daily net flow.
C22_DaysOfCashPerDay ==
    (RiskReturned /\ RiskOutflowDays # {}) =>
        LET days == resp.result.value.cash_risk.days_of_cash
            current_balance == SumOver(cashflow, RiskRows, "amount_rur")
            outflow == 0 - SumFn([d \in RiskOutflowDays |-> RiskDailyNet(d)])
        IN  days.num * outflow
                = current_balance * Cardinality(RiskOutflowDays) * days.den

\* C23: with open receivables of positive total the counterparty risk is
\* returned with overdue_percentage = 100 * (overdue more than 30 days) /
\* total and concentration_top3 = 100 * (three largest per-counterparty
\* totals) / total, both between 0 and 100.
C23_CounterpartyPercentages ==
    (IsRisk /\ SumOver(arap, RiskReceivables, "amount") > 0) =>
        /\ ~Raised(resp.result)
        /\ LET total == SumOver(arap, RiskReceivables, "amount")
               overdue == SumOver(arap,
                              {r \in RiskReceivables :
                                  r.overdue_days # None
                                  /\ r.overdue_days[1] > 30}, "amount")
               of(c) == SumOver(arap,
                            {r \in RiskReceivables : r.counterparty_id = c},
                            "amount")
               counterparties == {r.counterparty_id : r \in RiskReceivables}
               top3 == MaxSet({SumFn([c \in G |-> of(c)]) :
                                  G \in {H \in SUBSET counterparties :
                                             Cardinality(H) <= 3}})
               cr == resp.result.value.counterparty_risk
           IN  /\ cr.overdue_ar_percentage.num * total
                      = 100 * overdue * cr.overdue_ar_percentage.den
               /\ cr.concentration_top3.num * total
                      = 100 * top3 * cr.concentration_top3.den
               /\ cr.overdue_ar_percentage.num >= 0
               /\ cr.overdue_ar_percentage.num
                      <= 100 * cr.overdue_ar_percentage.den
               /\ cr.concentration_top3.num >= 0
               /\ cr.concentration_top3.num <= 100 * cr.concentration_top3.den

(***************************************************************************)
(* Properties of the history and of the stages of the forecast             *)
(***************************************************************************)
\* the forecast returned is the degenerate one
FcDegenerate == FcPoints = <<>> /\ FcGaps = <<>>
\* calendar days from the earliest to the latest transaction day of the
\* look-back window, both included; 0 when the window holds no transaction
FcHistorySpan ==
    LET dates == {r.transaction_date : r \in FcLookbackRows}
    IN  IF dates = {} THEN 0 ELSE MaxSet(dates) - MinSet(dates) + 1

\* C24 (as claimed): the degenerate forecast is returned exactly when fewer
\* than 7 distinct calendar days of the look-back window carry transactions,
\* however far apart those days are.
C24_DegenerateByDistinctDays ==
    IsForecast => (FcDegenerate <=> FcDistinctDays < 7)

\* C24 (amended): the degenerate forecast is returned exactly when the
\* earliest and the latest transaction day of the look-back window span
\* fewer than 7 calendar days (or the window holds no transaction); fewer
\* than 7 distinct transaction days that span 7 days or more give a forecast
\* of horizon_days points.
C24_DegenerateBySpan ==
    IsForecast =>
        /\ FcDegenerate <=> FcHistorySpan < 7
        /\ ~FcDegenerate => Len(FcPoints) = resp.horizon_days

\* a forecast made from two transaction days a week apart
C24_Witness ==
    /\ IsForecast
    /\ FcDistinctDays = 2
    /\ FcHistorySpan = 7
    /\ ~FcDegenerate

\* C25: for a non-empty set of transactions in the look-back window the
\* history has one entry per calendar day from the earliest to the latest
\* transaction day, in increasing order with no day skipped; a day with
\* transactions carries their signed sum, a day without carries 0, and the
\* length is (latest - earliest) + 1.
C25_HistoryIsGapFree ==
    (IsForecast /\ FcLookbackRows # {}) =>
        LET historical == GetHistoricalCashflow(resp.entity_ids)
            dates == {r.transaction_date : r \in FcLookbackRows}
            earliest == MinSet(dates)
            latest == MaxSet(dates)
        IN  /\ Len(historical) = (latest - earliest) + 1
            /\ historical[1].date = earliest
            /\ historical[Len(historical)].date = latest
            /\ \A i \in 1..(Len(historical) - 1) :
                   historical[i + 1].date = historical[i].date + 1
            /\ \A i \in 1..Len(historical) :
                   historical[i].cf =
                       SumOver(cashflow,
                               {r \in FcLookbackRows :
                                   r.transaction_date = historical[i].date},
                               "amount_rur")

\* a history with days in between that carry no transaction, and a day that
\* carries two
C25_Witness ==
    /\ IsForecast
    /\ FcDistinctDays = 2
    /\ FcHistoryLen = 34
    /\ \E d \in {r.transaction_date : r \in FcLookbackRows} :
           CountOver(cashflow,
                     {r \in FcLookbackRows : r.transaction_date = d}) >= 2

\* the rows of a table under the request's entity filter whose planned
\* payment date lies in lo..hi
FcPlannedBetween(table, lo, hi) ==
    {r \in BagToSet(table) :
        /\ r.planned_payment_date # None
        /\ r.planned_payment_date[1] >= lo
        /\ r.planned_payment_date[1] <= hi
        /\ EntityMatch(resp.entity_ids, r)}
\* planned receivables minus planned payables dated tomorrow..d
FcPlannedNetUpTo(d) ==
    Prec * (SumOver(sales, FcPlannedBetween(sales, today + 1, d), "revenue_amount")
            - SumOver(purchases, FcPlannedBetween(purchases, today + 1, d),
                      "expense_amount"))
\* the balance of point i projected from the flows of the points `before'
FcBalanceOf(before, i) ==
    resp.result.current_balance
    + SumFn([j \in 1..i |-> before[j].forecasted_cf])

\* C26: the balances are projected after the overlay and the gaps found on
\* the projected balances: a planned event of amount a dated d within
\* tomorrow..today+H shifts the projected balance of every point dated d or
\* later by a and of no earlier point, events dated outside that range shift
\* no point, and a point is a gap exactly when its shifted balance is below 0.
C26_PlannedEventShiftsLaterBalances ==
    (IsForecast /\ FcPoints # <<>>) =>
        LET before == FcBaselinePoints IN
        \A i \in 1..Len(FcPoints) :
            LET shifted == FcBalanceOf(before, i)
                           + FcPlannedNetUpTo(FcPoints[i].date)
            IN  /\ FcPoints[i].projected_balance = shifted
                /\ (\E k \in 1..Len(FcGaps) : FcGaps[k].date = FcPoints[i].date)
                       <=> shifted < 0

\* a planned payable on the second forecast day and a receivable planned for
\* today: the first point keeps the baseline balance and is no gap, the
\* later points are gaps that the baseline alone has not
C26_Witness ==
    /\ IsForecast
    /\ Len(FcPoints) >= 3
    /\ FcPlannedBetween(sales, today, today) # {}
    /\ FcPlannedBetween(purchases, today + 2, today + 2) # {}
    /\ LET before == FcBaselinePoints
       IN  /\ FcPoints[1].projected_balance = FcBalanceOf(before, 1)
           /\ FcPoints[1].projected_balance >= 0
           /\ \A i \in 2..Len(FcPoints) :
                  /\ FcBalanceOf(before, i) >= 0
                  /\ FcPoints[i].projected_balance < 0
    /\ Len(FcGaps) = Len(FcPoints) - 1

\* C27: the overlay and the balance projection change only forecasted_cf
\* and projected_balance: every point keeps the date, lower_bound,
\* upper_bound and confidence the baseline gave it, so that after a planned
\* event forecasted_cf may lie outside [lower_bound, upper_bound].
C27_BandKeptFromBaseline ==
    (IsForecast /\ FcPoints # <<>>) =>
        LET before == FcBaselinePoints IN
        /\ Len(FcPoints) = Len(before)
        /\ \A i \in 1..Len(FcPoints) :
              /\ DOMAIN FcPoints[i] = DOMAIN before[i] \cup {"projected_balance"}
              /\ FcPoints[i].date = before[i].date
              /\ FcPoints[i].lower_bound = before[i].lower_bound
              /\ FcPoints[i].upper_bound = before[i].upper_bound
              /\ FcPoints[i].confidence = before[i].confidence

\* a forecast with an uncertainty band in which a planned payable puts the
\* flow of one point below its lower bound and a planned receivable puts the
\* flow of another point above its upper bound
C27_Witness ==
    /\ IsForecast
    /\ resp.include_uncertainty
    /\ \E i \in 1..Len(FcPoints) :
           /\ FcPoints[i].lower_bound # None
           /\ FcPoints[i].confidence = Some(95)
           /\ FcPoints[i].forecasted_cf < FcPoints[i].lower_bound[1]
    /\ \E i \in 1..Len(FcPoints) :
           /\ FcPoints[i].upper_bound # None
           /\ FcPoints[i].forecasted_cf > FcPoints[i].upper_bound[1]

\* C28: on one snapshot, filter and day the forecast of a shorter horizon
\* is a prefix of the forecast of a longer one: its points are the first
\* points of the longer forecast, and its gaps are the gaps of the longer
\* forecast dated up to the end of the shorter horizon.
C28_HorizonPrefix ==
    IsForecast =>
        \A longer \in resp.horizon_days..MaxHorizon :
            LET other == ForecastCashflow(longer, resp.entity_ids,
                                          resp.include_uncertainty)
                within(gap) == gap.date <= today + resp.horizon_days
            IN  /\ FcPoints = SubSeq(other.forecast_points, 1, Len(FcPoints))
                /\ FcPoints # <<>> => Len(FcPoints) = resp.horizon_days
                /\ FcGaps = SelectSeq(other.cash_gaps, within)
                /\ resp.result.current_balance = other.current_balance

\* a forecast whose last point carries a planned payable and is a gap, while
\* the longest forecast has further points and further gaps
C28_Witness ==
    /\ IsForecast
    /\ resp.horizon_days = 2
    /\ FcPlannedBetween(purchases, today + 2, today + 2) # {}
    /\ Len(FcGaps) = 1
    /\ FcGaps[1].date = today + 2
    /\ LET other == ForecastCashflow(MaxHorizon, resp.entity_ids,
                                     resp.include_uncertainty)
       IN  /\ Len(other.forecast_points) = MaxHorizon
           /\ Len(other.cash_gaps) > 1

(***************************************************************************)
(* Properties across the three operations                                  *)
(***************************************************************************)
\* the request carries an entity filter that no row of any table matches
FilterMatchesNothing ==
    /\ resp # NoResp
    /\ HasFilter(resp.entity_ids)
    /\ \A r \in BagToSet(cashflow) \cup BagToSet(sales)
              \cup BagToSet(purchases) \cup BagToSet(arap) :
          r.entity_id \notin resp.entity_ids[1]

\* C21: under an entity filter that matches no row none of the operations
\* fails: the forecast has no points and no gaps, the risk score is complete
\* with the three sub-levels and the overall level Low, and the list of
\* recommendations is empty.
C21_NoMatchDegradesGracefully ==
    /\ (IsForecast /\ FilterMatchesNothing) =>
            /\ resp.result.forecast_points = <<>>
            /\ resp.result.cash_gaps = <<>>
    /\ (IsRisk /\ FilterMatchesNothing) =>
            /\ ~Raised(resp.result)
            /\ resp.result.value.cash_risk.risk_level = "Low"
            /\ resp.result.value.counterparty_risk.risk_level = "Low"
            /\ resp.result.value.anomaly_risk.risk_level = "Low"
            /\ resp.result.value.overall_risk = "Low"
    /\ (IsRec /\ FilterMatchesNothing) =>
            /\ ~Raised(resp.result)
            /\ resp.result.value = <<>>

\* a risk score returned under a filter that matches nothing while every
\* table holds rows that the unfiltered computations use
C21_Witness ==
    /\ IsRisk
    /\ FilterMatchesNothing
    /\ cashflow # EmptyBag /\ arap # EmptyBag
    /\ purchases # EmptyBag /\ sales # EmptyBag
    /\ ~Raised(resp.result)
    /\ resp.result.value.overall_risk = "Low"
    /\ Raised(CalculateRiskScore(None))

\* C29: on one snapshot and entity filter the number of cash_gap
\* recommendations returned equals the number of gaps of the 30-day forecast
\* and 30 times the probability_of_gap of the risk score, so that the
\* probability is positive exactly when a cash_gap recommendation is produced.
C29_GapCountsAgree ==
    /\ RecReturned =>
           LET n == Len(SelectSeq(resp.result.value, IsCashGapRec))
               p == CalculateCashRisk(resp.entity_ids).probability_of_gap
           IN  /\ n = Len(ForecastCashflow(30, resp.entity_ids, TRUE).cash_gaps)
               /\ p.num * 30 = n * p.den
               /\ (p.num > 0) <=> (n >= 1)
    /\ RiskReturned =>
           LET p == resp.result.value.cash_risk.probability_of_gap
               n == Len(SelectSeq(CashGapRecommendations(resp.entity_ids),
                                  IsCashGapRec))
           IN  /\ p.num * 30 = n * p.den
               /\ (p.num > 0) <=> (n >= 1)

\* recommendations returned under an entity filter with some cash_gap
\* recommendations, fewer than 30, on a snapshot that holds rows of another
\* entity
C29_Witness ==
    /\ RecReturned
    /\ resp.entity_ids = Some({1})
    /\ \E r \in BagToSet(cashflow) : r.entity_id = 2
    /\ Len(SelectSeq(resp.result.value, IsCashGapRec)) \in 1..29
    /\ CalculateCashRisk(resp.entity_ids).probability_of_gap.num
           = Len(SelectSeq(resp.result.value, IsCashGapRec))
    /\ ~Raised(CalculateRiskScore(resp.entity_ids))

\* C30: an empty list of entity ids is treated like no filter: each of the
\* three operations called with entity_ids = [] returns what it returns with
\* entity_ids = None on the same snapshot, computed over the rows of all
\* entities.
C30_EmptyListIsNoFilter ==
    (resp # NoResp /\ resp.entity_ids = Some({})) =>
        /\ IsForecast =>
               resp.result = ForecastCashflow(resp.horizon_days, None,
                                              resp.include_uncertainty)
        /\ IsRisk => resp.result = CalculateRiskScore(None)
        /\ IsRec =>
               \E ar_order \in TopOrders(OverdueByCounterparty(None),
                                         CollectionLimit) :
                   resp.result = GenerateRecommendations(None, ar_order)

\* a forecast requested with an empty list on a snapshot of two entities:
\* it has points and gaps, and its balance counts the rows of both entities
C30_Witness ==
    /\ IsForecast
    /\ resp.entity_ids = Some({})
    /\ {r.entity_id : r \in BagToSet(cashflow)} = {1, 2}
    /\ FcPoints # <<>>
    /\ FcGaps # <<>>
    /\ resp.result.current_balance =
           Prec * SumOver(cashflow, BagToSet(cashflow), "amount_rur")
    /\ resp.result # ForecastCashflow(resp.horizon_days, Some({1}),
                                      resp.include_uncertainty)

====
